---- MODULE Spec2Model ----
(***************************************************************************)
(* Trample-map subsystem of the MetalVegetation renderer.                  *)
(*                                                                         *)
(* Floats are modelled in exact fixed point:                               *)
(*   trample values  : 1.0  = Unit                                         *)
(*   world lengths   : 1.0  = WorldUnit                                    *)
(*   time            : 1.0s = TicksPerSecond ticks                         *)
(* Grids are textures of trampleMapSize x trampleMapSize texels, indexed   *)
(* by gid = <<x, y>>.                                                      *)
(***************************************************************************)
EXTENDS Integers, Sequences, FiniteSets, TLC

VARIABLES
    trampleMapA,         \* contents of m_trampleMapA : [Cells -> Int]
    trampleMapB,         \* contents of m_trampleMapB : [Cells -> Int]
    trampleMapSize,      \* width = height of both textures
    m_trampleMapSwap,    \* ping-pong flag
    m_trampleComputePSO, \* TRUE when the compute pipeline was created
    uniformBuffer,       \* contents of the single shared m_uniformBuffer
    lastTime,            \* static float lastTime in Renderer::draw
    glfwTime,            \* the clock read by glfwGetTime()
    queue,               \* committed command buffers not yet finished by the GPU
    frame,               \* number of command buffers committed so far
    dispatched,          \* number of trample updates encoded so far
    lastOutput,          \* grid chosen as output by the latest encoded update
    writer,              \* per grid: sequence number of the update that wrote it last
    gpuLog,              \* what the latest executed GPU stage read and wrote
    grassOut,            \* outcome of the grass fragments of the latest grass pass
    calls,               \* number of advance calls (kernel-level specification)
    m_showTrampleMap,    \* debug toggle of the trample map visualisation
    m_prevTKeyState,     \* state of the T key seen by the previous update()
    m_texture,           \* grass texture: "loaded", or "null" when loading it failed
    running,             \* FALSE once the process has died
    vertexOut,           \* wind bend of the grass vertices of the latest grass pass
    m_camera,            \* yaw and pitch of the camera, in tenths of a degree
    m_firstMouse,        \* TRUE until update() has read the cursor once
    m_lastX,             \* cursor position seen by the previous update()
    m_lastY,
    m_groundTexture,     \* ground texture loaded at construction, and the files tried
    bladeOut             \* vertices of the latest blade run through the vertex stage

vars == <<trampleMapA, trampleMapB, trampleMapSize, m_trampleMapSwap,
          m_trampleComputePSO, uniformBuffer, lastTime, glfwTime, queue,
          frame, dispatched, lastOutput, writer, gpuLog, grassOut, calls,
          m_showTrampleMap, m_prevTKeyState, m_texture, running, vertexOut,
          m_camera, m_firstMouse, m_lastX, m_lastY, m_groundTexture, bladeOut>>

\* What update() keeps of the mouse and the camera
inputVars == <<m_camera, m_firstMouse, m_lastX, m_lastY>>

----------------------------------------------------------------------------
(* Fixed-point scales and program constants *)

Unit == 1200                    \* trample value 1.0 (the stamp value)
WorldUnit == 20                 \* world length 1.0
TicksPerSecond == 60            \* 1/60 s is the default dt

SCENE_SIZE == 15 * WorldUnit    \* static constexpr float SCENE_SIZE = 15.0f
InteractorRadius == WorldUnit   \* uniforms.interactorRadius = 1.0f
PathRadius == 3 * WorldUnit     \* float radius = 3.0f (circular path)
TrampleDecayRate == (35 * Unit) \div 100   \* uniforms.trampleDecayRate = 0.35f
DefaultDt == 1                  \* 1.0f / 60.0f, in ticks
ThreadGroupSize == 16           \* const int threadGroupSize = 16
KillThreshold == Unit \div 2    \* const float killThreshold = 0.5
Degree == 10                    \* angles in tenths of a degree (mouseSensitivity 0.1f)

(* Bounds of the model *)
TrampleMapSize == 8             \* texels per side (1024 in the program)
AdvanceMapSize == 4             \* texels per side in the kernel-level specification
MaxFrames == 3                  \* frames drawn per behaviour
MaxInFlight == 2                \* drawables the layer hands out before nextDrawable blocks
MaxCalls == 3                   \* advance calls per behaviour

----------------------------------------------------------------------------
(* Helpers *)

Max(a, b) == IF a >= b THEN a ELSE b

Cells(w) == (0 .. w - 1) \X (0 .. w - 1)

Fill(w, v) == [gid \in Cells(w) |-> v]

----------------------------------------------------------------------------
(* updateTrampleMap: the compute kernel, per thread *)

\* Mutant of DecayedTrample: the decay is added instead of subtracted
DecayedTrampleGrows(currentTrample, u) ==
    Max(0, currentTrample + (u.trampleDecayRate * u.dt) \div TicksPerSecond)

\* Mutant of DecayedTrample: dt is cut down to whole seconds
DecayedTrampleWholeSeconds(currentTrample, u) ==
    Max(0, currentTrample - u.trampleDecayRate * (u.dt \div TicksPerSecond))

\* Mutant of DecayedTrample: the decay ignores dt
DecayedTrampleNoDt(currentTrample, u) ==
    Max(0, currentTrample - u.trampleDecayRate \div TicksPerSecond)

\* STEP 1: max(0.0, currentTrample - uniforms.trampleDecayRate * uniforms.dt)
DecayedTrample(currentTrample, u) ==
    Max(0, currentTrample - (u.trampleDecayRate * u.dt) \div TicksPerSecond)

\* uv = float2(gid) / float2(width, height); worldXZ = mix(groundMinXZ, groundMaxXZ, uv).
\* WorldXZw is worldXZ multiplied by the texture width, so that it stays an integer.
WorldXZw(gid, u, w) ==
    << u.groundMinXZ[1] * w + (u.groundMaxXZ[1] - u.groundMinXZ[1]) * gid[1],
       u.groundMinXZ[2] * w + (u.groundMaxXZ[2] - u.groundMinXZ[2]) * gid[2] >>

\* dist = length(worldXZ - ballWorldPos.xz), squared and multiplied by width^2
DistSqw(gid, u, w) ==
    LET P == WorldXZw(gid, u, w)
        toBallX == P[1] - u.ballWorldPos[1] * w
        toBallZ == P[2] - u.ballWorldPos[2] * w
    IN  toBallX * toBallX + toBallZ * toBallZ

\* Mutant of InsideBall: the edge of the footprint is stamped too (dist <= radius)
InsideBallInclusive(gid, u, w) ==
    /\ u.ballRadius > 0
    /\ DistSqw(gid, u, w) <= (u.ballRadius * w) * (u.ballRadius * w)

\* dist < uniforms.ballRadius  (dist >= 0, so a radius <= 0 covers nothing)
InsideBall(gid, u, w) ==
    /\ u.ballRadius > 0
    /\ DistSqw(gid, u, w) < (u.ballRadius * w) * (u.ballRadius * w)

\* stamp = (dist < uniforms.ballRadius) ? 1.0 : 0.0
Stamp(gid, u, w) == IF InsideBall(gid, u, w) THEN Unit ELSE 0

\* newTrample = max(decayedTrample, stamp)
NewTrample(currentTrample, gid, u, w) ==
    Max(DecayedTrample(currentTrample, u), Stamp(gid, u, w))

\* Mutant of ReadTexel: the thread reads the texel mirrored across the diagonal
ReadTexelTransposed(texture, gid) == texture[<<gid[2], gid[1]>>]

\* currentTrample = inputTexture.read(gid).r
ReadTexel(texture, gid) == texture[gid]

\* Mutant of ThreadgroupCount: the division is not rounded up
ThreadgroupCountTruncated(w) == w \div ThreadGroupSize

\* Threads launched by dispatchThreadgroups(threadgroupCount, threadgroupSize)
ThreadgroupCount(w) == (w + ThreadGroupSize - 1) \div ThreadGroupSize

Threads(w) ==
    (0 .. ThreadgroupCount(w) * ThreadGroupSize - 1)
        \X (0 .. ThreadgroupCount(w) * ThreadGroupSize - 1)

\* if (gid.x >= width || gid.y >= height) return;  the threads that go on to write
WritingThreads(w) == { gid \in Threads(w) : gid[1] < w /\ gid[2] < w }

\* The whole dispatch: every launched thread inside the texture writes its
\* own texel of the output texture; the other texels keep their contents.
updateTrampleMap(inputTexture, outputTexture, u, w) ==
    [gid \in Cells(w) |->
        IF gid \in WritingThreads(w)
        THEN NewTrample(ReadTexel(inputTexture, gid), gid, u, w)
        ELSE outputTexture[gid]]

\* One thread of the dispatch run on its own. textures holds the contents of
\* both grids by name; the thread reads its texel of the grid bound as input
\* and writes its texel of the grid bound as output.
ThreadStep(gid, textures, inName, outName, u, w) ==
    IF gid[1] >= w \/ gid[2] >= w
    THEN textures
    ELSE [textures EXCEPT ![outName][gid] =
              NewTrample(ReadTexel(textures[inName], gid), gid, u, w)]

\* The threads of a dispatch run one after the other in the given order
RECURSIVE RunThreads(_, _, _, _, _, _)
RunThreads(order, textures, inName, outName, u, w) ==
    IF order = <<>>
    THEN textures
    ELSE RunThreads(Tail(order), ThreadStep(Head(order), textures, inName, outName, u, w),
                    inName, outName, u, w)

----------------------------------------------------------------------------
(* Ping-pong roles, Renderer::draw *)

\* inputTexture = m_trampleMapSwap ? m_trampleMapB : m_trampleMapA
InputName(swap) == IF swap THEN "B" ELSE "A"
\* Mutant of OutputName: the update writes into the grid it reads
OutputNameInPlace(swap) == IF swap THEN "B" ELSE "A"

\* outputTexture = m_trampleMapSwap ? m_trampleMapA : m_trampleMapB
OutputName(swap) == IF swap THEN "A" ELSE "B"
\* "false = A is current, true = B is current" (Renderer.hpp)
CurrentName(swap) == IF swap THEN "B" ELSE "A"

Grid(name) == IF name = "A" THEN trampleMapA ELSE trampleMapB

NoLog == [frame |-> 0, stage |-> "none"]

\* The uniforms a frame carries (the fields of struct Uniforms the model follows)
MakeUniforms(time, ballWorldPos, ballRadius, groundMin, groundMax, dt, rate, show) ==
    [time |-> time, ballWorldPos |-> ballWorldPos, ballRadius |-> ballRadius,
     groundMinXZ |-> groundMin, groundMaxXZ |-> groundMax, dt |-> dt,
     trampleDecayRate |-> rate, showTrampleMap |-> show]

\* Contents a texture can hold before anything was written to it:
\* buildTrampleMaps creates both textures and writes nothing into them.
Uninitialized == {0 - Unit, 0, 2 * Unit}

\* buildTextures: the ground texture is read from the PNG, from the JPG when
\* the PNG cannot be read, and is null when neither can
LoadGroundTexture(pngReadable, jpgReadable) ==
    IF pngReadable THEN [texture |-> "png", attempts |-> <<"png">>]
    ELSE IF jpgReadable THEN [texture |-> "jpg", attempts |-> <<"png", "jpg">>]
    ELSE [texture |-> "null", attempts |-> <<"png", "jpg">>]

\* if (m_groundPSO && m_groundVertexBuffer && m_groundTexture && ...)
GroundPassEncoded(groundTexture) == groundTexture.texture # "null"

\* The passes draw encodes into the render encoder of a frame, in order
EncodedPasses(groundTexture) ==
    IF GroundPassEncoded(groundTexture)
    THEN <<"ground", "grass", "ball">> ELSE <<"grass", "ball">>

\* What draw prints on stderr in a frame
FrameWarnings(groundTexture) ==
    IF GroundPassEncoded(groundTexture) THEN <<>>
    ELSE <<"Warning: Ground rendering skipped - missing resources">>

\* Buffer index BufferIndexUniforms of the fragment stage when the grass draw
\* is encoded: the ground pass binds m_uniformBuffer there, the grass pass
\* sets the vertex stage's buffer only
GrassFragmentUniforms(groundTexture) ==
    IF GroundPassEncoded(groundTexture) THEN "m_uniformBuffer" ELSE "unbound"

\* What the grass fragments get when they read `uniforms`: the buffer's
\* contents, or, from an index nothing is bound to, whatever the GPU does
\* with such a read -- it goes through all the same, or the command buffer
\* is aborted with the grass and ball draws undone
UniformReads(fragmentUniforms) ==
    IF fragmentUniforms = "unbound" THEN {"read", "fault"} ELSE {"read"}

----------------------------------------------------------------------------
(* Kernel-level specification: updateTrampleMap plus the role swap, with    *)
(* every input of the update drawn from a bounded set.                      *)

AdvancePositions ==
    { <<0, 0>>, <<5 * WorldUnit, 5 * WorldUnit>>, <<0 - (3 * WorldUnit) \div 2, 0>> }
AdvanceRadii == { WorldUnit \div 2, (6 * WorldUnit) \div 10 }
AdvanceRates == { TrampleDecayRate, Unit }
AdvanceDts == { 0, TicksPerSecond \div 10, TicksPerSecond \div 2 }
AdvanceValues == { 0, (8 * Unit) \div 10, Unit } \cup Uninitialized

AdvanceInit ==
    /\ trampleMapSize = AdvanceMapSize
    /\ \E v \in AdvanceValues : trampleMapA = Fill(AdvanceMapSize, v)
    /\ \E v \in Uninitialized : trampleMapB = Fill(AdvanceMapSize, v)
    /\ m_trampleMapSwap = FALSE
    /\ m_trampleComputePSO = TRUE
    /\ \E r \in AdvanceRadii, k \in AdvanceRates :
          uniformBuffer = MakeUniforms(0, <<0, 0>>, r, <<0 - WorldUnit, 0 - WorldUnit>>,
                                       <<WorldUnit, WorldUnit>>, 0, k, FALSE)
    /\ lastTime = 0
    /\ glfwTime = 0
    /\ queue = <<>>
    /\ frame = 0
    /\ dispatched = 0
    /\ lastOutput = "none"
    /\ writer = [n \in {"A", "B"} |-> 0]
    /\ gpuLog = NoLog
    /\ grassOut = {}
    /\ calls = 0
    /\ m_showTrampleMap = FALSE
    /\ m_prevTKeyState = FALSE
    /\ m_texture = "loaded"
    /\ running = TRUE
    /\ vertexOut = {}
    /\ m_camera = [yaw |-> 0 - 90 * Degree, pitch |-> 0]
    /\ m_firstMouse = TRUE
    /\ m_lastX = 400
    /\ m_lastY = 300
    /\ m_groundTexture = LoadGroundTexture(TRUE, TRUE)
    /\ bladeOut = {}

\* One advance: the kernel over the whole grid with the given interactor
\* position and dt, then the swap of the roles.
Advance(pos, dt) ==
    LET u == [uniformBuffer EXCEPT !.ballWorldPos = pos, !.dt = dt]
        w == trampleMapSize
        out == updateTrampleMap(Grid(InputName(m_trampleMapSwap)),
                                Grid(OutputName(m_trampleMapSwap)), u, w)
    IN  /\ calls < MaxCalls
        /\ uniformBuffer' = u
        /\ IF OutputName(m_trampleMapSwap) = "A"
           THEN trampleMapA' = out /\ UNCHANGED trampleMapB
           ELSE trampleMapB' = out /\ UNCHANGED trampleMapA
        /\ m_trampleMapSwap' = ~m_trampleMapSwap
        /\ calls' = calls + 1
        /\ dispatched' = dispatched + 1
        /\ lastOutput' = OutputName(m_trampleMapSwap)
        /\ writer' = [writer EXCEPT ![OutputName(m_trampleMapSwap)] = dispatched + 1]
        /\ gpuLog' = [frame |-> calls + 1, stage |-> "advance", uniformsRead |-> u,
                      uniformsWritten |-> u, previous |-> uniformBuffer]
        /\ UNCHANGED <<trampleMapSize, m_trampleComputePSO, lastTime, glfwTime,
                       queue, frame, grassOut, m_showTrampleMap, m_prevTKeyState,
                       m_texture, m_groundTexture, bladeOut, inputVars, running, vertexOut>>

AdvanceNext == \E pos \in AdvancePositions, dt \in AdvanceDts : Advance(pos, dt)

SpecAdvance == AdvanceInit /\ [][AdvanceNext]_vars

\* The dt of a frame is positive
PositiveDts == { dt \in AdvanceDts : dt > 0 }

\* One frame of a run that goes on for ever: the same advance, without the
\* bookkeeping that counts the calls
Frame(pos, dt) ==
    LET u == [uniformBuffer EXCEPT !.ballWorldPos = pos, !.dt = dt]
        w == trampleMapSize
        out == updateTrampleMap(Grid(InputName(m_trampleMapSwap)),
                                Grid(OutputName(m_trampleMapSwap)), u, w)
    IN  /\ uniformBuffer' = u
        /\ IF OutputName(m_trampleMapSwap) = "A"
           THEN trampleMapA' = out /\ UNCHANGED trampleMapB
           ELSE trampleMapB' = out /\ UNCHANGED trampleMapA
        /\ m_trampleMapSwap' = ~m_trampleMapSwap
        /\ lastOutput' = OutputName(m_trampleMapSwap)
        /\ UNCHANGED <<trampleMapSize, m_trampleComputePSO, lastTime, glfwTime,
                       queue, frame, dispatched, writer, gpuLog, grassOut, calls,
                       m_showTrampleMap, m_prevTKeyState, m_texture, running,
                       vertexOut, m_groundTexture, bladeOut, inputVars>>

FrameNext == \E pos \in AdvancePositions, dt \in PositiveDts : Frame(pos, dt)

\* The run starts from grids allocated together, with the faster decay
InitFrames ==
    /\ AdvanceInit
    /\ trampleMapA = trampleMapB
    /\ uniformBuffer.trampleDecayRate = Unit

\* The main loop draws frame after frame
SpecFrames == InitFrames /\ [][FrameNext]_vars /\ WF_vars(FrameNext)

----------------------------------------------------------------------------
(* fragmentMain of the grass pass: the trample clip and the alpha floor     *)

OpacityUnit == 100              \* opacity 1.0
OpacityFloor == 10              \* if (opacity < 0.1) discard_fragment()
Opacities == { OpacityFloor - 1, OpacityFloor }

\* Fragment positions: trampleUV = k / (2 * width) per axis, k in 0 .. 2 * width,
\* i.e. the texel centres (k odd) and the texel borders (k even) of the trample map.
FragPositions(w) == (0 .. 2 * w) \X (0 .. 2 * w)

\* The fragments the model follows: the grass standing on three lines across
\* the field, along its two edges and just right of its middle.
GrassFragPositions(w) == { p \in FragPositions(w) : p[1] \in {0, w + 1, 2 * w} }

\* The two texels a linear, clamp_to_edge sampler blends along one axis at
\* uv = k / (2 * width): texel coordinate uv * width - 0.5 = (k - 1) / 2.
LoTexel(k, w) == IF k = 0 THEN 0 ELSE (k - 1) \div 2
HiTexel(k, w) == IF k = 2 * w THEN w - 1 ELSE k \div 2

\* trampleMap.sample(trampleSampler, trampleUV).r, multiplied by 4 (bilinear
\* weights are 1/4 each over the four blended texels).
Sample4(texture, p, w) ==
    texture[<<LoTexel(p[1], w), LoTexel(p[2], w)>>]
  + texture[<<LoTexel(p[1], w), HiTexel(p[2], w)>>]
  + texture[<<HiTexel(p[1], w), LoTexel(p[2], w)>>]
  + texture[<<HiTexel(p[1], w), HiTexel(p[2], w)>>]

\* Mutant of TrampleClip: a sample of exactly the threshold is clipped too
TrampleClipInclusive(trample4) == trample4 >= 4 * KillThreshold

\* if (trample > killThreshold) discard_fragment();
TrampleClip(trample4) == trample4 > 4 * KillThreshold

\* if (opacity < 0.1) discard_fragment();
AlphaClip(opacity) == opacity < OpacityFloor

fragmentMain(trample4, opacity) ==
    IF TrampleClip(trample4) THEN "discarded"
    ELSE IF AlphaClip(opacity) THEN "discarded"
    ELSE "shaded"

\* if (uniforms.showTrampleMap > 0.5) finalColor *= mix(white, red, trample):
\* the weight of red in the tint of an output fragment, multiplied by 4
trampleTint(trample4, u) == IF u.showTrampleMap THEN trample4 ELSE 0

\* Mutant of GrassFragment: the debug view outputs the clipped fragments too
GrassFragmentDebugUnclipped(trample4, opacity, u) ==
    LET out == IF u.showTrampleMap /\ ~AlphaClip(opacity)
               THEN "shaded" ELSE fragmentMain(trample4, opacity)
    IN  [trample4 |-> trample4, opacity |-> opacity, out |-> out,
         tint |-> IF out = "shaded" THEN trampleTint(trample4, u) ELSE 0]

\* One grass fragment: its sample, its opacity, whether it is output and,
\* when it is, the debug tint of its colour
GrassFragment(trample4, opacity, u) ==
    LET out == fragmentMain(trample4, opacity)
    IN  [trample4 |-> trample4, opacity |-> opacity, out |-> out,
         tint |-> IF out = "shaded" THEN trampleTint(trample4, u) ELSE 0]

\* The grass pass over every modelled fragment: the set of
\* (sampled trample value, opacity, outcome, tint) the fragments produce.
GrassPass(texture, w, u) ==
    LET samples == { Sample4(texture, p, w) : p \in GrassFragPositions(w) }
    IN  { GrassFragment(t, o, u) : t \in samples, o \in Opacities }

----------------------------------------------------------------------------
(* vertexMain of the grass pass: the wind bend of a blade                   *)

WindUnit == 1000                \* wind strength 1.0 (and sine value 1.0)
HeightUnit == 4                 \* t = 1.0, the tip of the blade
BendSensitivity == 12           \* the factor 1.2 of the bend angle, in tenths

\* Values of sin(...) and noise2D(...) the blades of a frame meet
Sines == { 0 - WindUnit, WindUnit }
RawSines == { 0 - WindUnit, 0, WindUnit }
Noises == { 0, WindUnit }
Heights == { 0, HeightUnit \div 2, HeightUnit }

\* idleStrength = sin(tTime * idleFreq + idlePhase) * 0.08
IdleStrength(sine) == (sine * 8) \div 100

\* mainSwell = rawSine * 0.65 + 0.35
MainSwell(rawSine) == (rawSine * 65) \div 100 + (35 * WindUnit) \div 100

\* turbulence = noise2D(noiseUV) - 0.2
Turbulence(noise) == noise - (2 * WindUnit) \div 10

\* fluidWind = mix(mainSwell, turbulence, 0.3)
FluidWind(mainSwell, turbulence) == mainSwell + ((turbulence - mainSwell) * 3) \div 10

\* totalWindStrength = fluidWind + idleStrength
TotalWindStrength(sine, rawSine, noise) ==
    FluidWind(MainSwell(rawSine), Turbulence(noise)) + IdleStrength(sine)

\* Mutant of BendAngle: the angle grows with the square of the height
BendAngleQuadratic(totalWindStrength, t) ==
    (totalWindStrength * t * t * BendSensitivity) \div (10 * HeightUnit * HeightUnit)

\* bendAngle = totalWindStrength * t * 1.2
BendAngle(totalWindStrength, t) ==
    (totalWindStrength * t * BendSensitivity) \div (10 * HeightUnit)

\* The grass vertices of one pass: every modelled height of every modelled
\* combination of idle oscillation, main swell and turbulence
VertexPass ==
    { [t |-> t, sine |-> sine, rawSine |-> rawSine, noise |-> noise,
       totalWindStrength |-> TotalWindStrength(sine, rawSine, noise),
       bendAngle |-> BendAngle(TotalWindStrength(sine, rawSine, noise), t)] :
         t \in Heights, sine \in Sines, rawSine \in RawSines, noise \in Noises }

----------------------------------------------------------------------------
(* vertexMain of the grass pass: the initial tilt and the flatten ring      *)

TiltUnit == 41                  \* cosine and sine 1.0
RingUnit == 1000                \* ring mask and flatten factor 1.0
RingThreshold == 1              \* if (ring > 0.001)

\* uniforms.flattenStrength = 0.75f
FlattenStrength == (75 * RingUnit) \div 100

\* uniforms.flattenBandWidth = uniforms.ballRadius * 0.35f
FlattenBandWidth(ballRadius) == (35 * ballRadius) \div 100

\* (cos, sin) of the initial tilt angles the blades meet, within +-15 degrees
Tilts == { <<TiltUnit, 0>>, <<40, 9>>, <<40, 0 - 9>> }

\* tiltAxisChoice < 0.5 tilts about the X axis, otherwise about the Z axis
TiltAxes == { "X", "Z" }

\* The local corners of the blade quad at height t: half a width to either side
Sides == { 0 - 1, 1 }

\* The initial tilt as the shader computes it: the second assignment of each
\* branch reads the coordinate the first one has just overwritten.
\* The result is in units of 1 / TiltUnit^2.
InitialTilt(position, tilt, axis) ==
    LET c == tilt[1]
        s == tilt[2]
        x == position[1]
        y == position[2]
        z == position[3]
    IN  IF axis = "X"
        THEN LET y1 == y * c - z * s
                 z1 == y1 * s + (z * c) * TiltUnit
             IN  <<x * TiltUnit * TiltUnit, y1 * TiltUnit, z1>>
        ELSE LET x1 == x * c - y * s
                 y1 == x1 * s + (y * c) * TiltUnit
             IN  <<x1 * TiltUnit, y1, z * TiltUnit * TiltUnit>>

\* t * t * (3 - 2 * t) for t = n / d, 0 <= n <= d
Hermite(n, d) == (RingUnit * n * n * (3 * d - 2 * n)) \div (d * d * d)

\* smoothstep as it is computed: clamp((x - edge0) / (edge1 - edge0), 0, 1)
\* put through the Hermite polynomial
SmoothstepClamped(edge0, edge1, x) ==
    LET den == IF edge1 > edge0 THEN edge1 - edge0 ELSE edge0 - edge1
        num == IF edge1 > edge0 THEN x - edge0 ELSE edge0 - x
        n == IF num < 0 THEN 0 ELSE IF num > den THEN den ELSE num
    IN  Hermite(n, den)

\* smoothstep as it is defined: 0 if x <= edge0, 1 if x >= edge1
SmoothstepDefined(edge0, edge1, x) ==
    IF x <= edge0 THEN 0
    ELSE IF x >= edge1 THEN RingUnit
    ELSE SmoothstepClamped(edge0, edge1, x)

\* The result of smoothstep(edge0, edge1, x) is undefined when edge0 >= edge1,
\* where the computation and the definition part ways: a build gives one or
\* the other
SmoothstepBuilds == { "computed", "defined" }

smoothstep(edge0, edge1, x, build) ==
    IF edge0 < edge1 \/ build = "computed"
    THEN SmoothstepClamped(edge0, edge1, x)
    ELSE SmoothstepDefined(edge0, edge1, x)

\* heightW = saturate(t); heightW = heightW * heightW;
\* flatten = ring * heightW * uniforms.flattenStrength
Flatten(ring, t) ==
    (ring * t * t * FlattenStrength) \div (HeightUnit * HeightUnit * RingUnit)

\* Planar distance of a point at `x` on the line through the interactor
PlanarDistance(x) == IF x < 0 THEN 0 - x ELSE x

\* One vertex of a blade whose root is at planar distance rootDist from the
\* interactor: the vertex sits `side` beside the root and leans out by `lean`
\* at the tip (tilt, billboard and wind together), all along the line through
\* the interactor.  P = finalWorldPos.xz is the vertex's own position.
FlattenVertex(rootDist, side, lean, t, u, build) ==
    LET offset == side + (lean * t) \div HeightUnit
        d == PlanarDistance(rootDist + offset)
        ring == smoothstep(u.ballRadius + FlattenBandWidth(u.ballRadius),
                           u.ballRadius, d, build)
        flatten == Flatten(ring, t)
        applied == ring > RingThreshold
    IN  [t |-> t, side |-> side, rootDist |-> rootDist, offset |-> offset,
         d |-> d,
         ring |-> ring,
         flatten |-> IF applied THEN flatten ELSE 0,
         before |-> <<offset * RingUnit, t * RingUnit>>,
         after |-> IF applied
                   THEN <<offset * (RingUnit - flatten), t * (RingUnit - flatten)>>
                   ELSE <<offset * RingUnit, t * RingUnit>>]

\* Distances of blade roots from the interactor, from inside the radius to
\* beyond the band
RootDists ==
    { InteractorRadius \div 2, InteractorRadius - 2, InteractorRadius,
      InteractorRadius + 3, InteractorRadius + FlattenBandWidth(InteractorRadius),
      2 * InteractorRadius }

\* How far the tip of a blade leans out of the vertical
Leans == { 0, 4 }

----------------------------------------------------------------------------
(* Renderer: construction, update and draw on the CPU, execution on the GPU *)

\* The scripted circular path (sin(time) * radius, cos(time) * radius),
\* sampled at the rational points of the circle, one sample per half second.
CirclePath ==
    LET r == PathRadius
        a == (3 * PathRadius) \div 5
        b == (4 * PathRadius) \div 5
    IN  << <<0, r>>, <<a, b>>, <<b, a>>, <<r, 0>>, <<b, 0 - a>>, <<a, 0 - b>>,
           <<0, 0 - r>>, <<0 - a, 0 - b>>, <<0 - b, 0 - a>>, <<0 - r, 0>>,
           <<0 - b, a>>, <<0 - a, b>> >>

currentInteractorPos(time) ==
    CirclePath[((time \div (TicksPerSecond \div 2)) % Len(CirclePath)) + 1]

\* Time that can pass between two calls of draw
Elapsed == { 0, TicksPerSecond }

\* The clock is followed up to one second per frame
MaxTime == MaxFrames * TicksPerSecond

\* Mutant of FrameDt: the difference is used as it is
FrameDtRaw(currentTime, last) == currentTime - last

\* uniforms.dt = (currentTime - lastTime > 0) ? (currentTime - lastTime) : 1/60
FrameDt(currentTime, last) ==
    IF currentTime - last > 0 THEN currentTime - last ELSE DefaultDt

\* The Uniforms struct draw builds and copies into m_uniformBuffer
FrameUniforms(time, last, show) ==
    MakeUniforms(time, currentInteractorPos(time), InteractorRadius,
                 <<0 - SCENE_SIZE, 0 - SCENE_SIZE>>, <<SCENE_SIZE, SCENE_SIZE>>,
                 FrameDt(time, last), TrampleDecayRate, show)

\* Mutant of StoredTime: the time is stored before the drawable is looked at
StoredTimeAlways(last, time, drawable) == time

\* static float lastTime: draw stores the current time in it when it rebuilds
\* the uniforms, which is after the return taken when there is no drawable
StoredTime(last, time, drawable) == IF drawable THEN time ELSE last

\* Mutant of NextSwap: the flag is never flipped
NextSwapStuck(swap, encoded) == swap

\* m_trampleMapSwap = !m_trampleMapSwap, only when the update was encoded
NextSwap(swap, encoded) == IF encoded THEN ~swap ELSE swap

\* currentTrampleMap = m_trampleMapSwap ? m_trampleMapA : m_trampleMapB
GrassTrampleMap(swap) == IF swap THEN "A" ELSE "B"

\* xoffset *= mouseSensitivity, 0.1 degree for every pixel
MouseSensitivity(offset) == (offset * Degree) \div 10

PitchLimit == 89 * Degree

\* Mutant of ConstrainPitch: the pitch is left as accumulated
ConstrainPitchOff(pitch) == pitch

\* if (pitch > 89.0f) pitch = 89.0f; if (pitch < -89.0f) pitch = -89.0f;
ConstrainPitch(pitch) ==
    IF pitch > PitchLimit THEN PitchLimit
    ELSE IF pitch < 0 - PitchLimit THEN 0 - PitchLimit
    ELSE pitch

\* Camera::processMouseMovement
processMouseMovement(camera, xoffset, yoffset) ==
    [yaw |-> camera.yaw + MouseSensitivity(xoffset),
     pitch |-> ConstrainPitch(camera.pitch + MouseSensitivity(yoffset))]

\* Cursor positions glfwGetCursorPos can report
CursorXs == { 400, 1600 }
CursorYs == { 0 - 600, 300, 900 }

\* Mutant of TKeyJustPressed: the key counts for as long as it is held
TKeyPressed(currentTKeyState, prevTKeyState) == currentTKeyState

\* if (currentTKeyState && !m_prevTKeyState)
TKeyJustPressed(currentTKeyState, prevTKeyState) ==
    currentTKeyState /\ ~prevTKeyState

Init ==
    /\ trampleMapSize = TrampleMapSize
    /\ \E v \in Uninitialized : trampleMapA = Fill(TrampleMapSize, v)
    /\ \E v \in Uninitialized : trampleMapB = Fill(TrampleMapSize, v)
    /\ m_trampleMapSwap = FALSE
    /\ m_trampleComputePSO \in BOOLEAN
    /\ uniformBuffer = MakeUniforms(0, <<0, 0>>, 0, <<0, 0>>, <<0, 0>>, 0, 0, FALSE)
    /\ lastTime = 0
    /\ glfwTime = 0
    /\ queue = <<>>
    /\ frame = 0
    /\ dispatched = 0
    /\ lastOutput = "none"
    /\ writer = [n \in {"A", "B"} |-> 0]
    /\ gpuLog = NoLog
    /\ grassOut = {}
    /\ calls = 0
    /\ m_showTrampleMap = FALSE
    /\ m_prevTKeyState = FALSE
    /\ m_texture \in {"loaded", "null"}
    /\ running = TRUE
    /\ vertexOut = {}
    /\ m_camera = [yaw |-> 0 - 90 * Degree, pitch |-> 0]
    /\ m_firstMouse = TRUE
    /\ m_lastX = 400
    /\ m_lastY = 300
    /\ m_groundTexture = LoadGroundTexture(TRUE, TRUE)
    /\ bladeOut = {}

\* update(): the T key toggles the debug view on its rising edge, and the
\* cursor movement since the previous update() turns the camera
Update(currentTKeyState, xpos, ypos) ==
    LET lastX == IF m_firstMouse THEN xpos ELSE m_lastX
        lastY == IF m_firstMouse THEN ypos ELSE m_lastY
        xoffset == xpos - lastX
        yoffset == lastY - ypos
    IN  /\ running
        /\ m_showTrampleMap' = IF TKeyJustPressed(currentTKeyState, m_prevTKeyState)
                               THEN ~m_showTrampleMap ELSE m_showTrampleMap
        /\ m_prevTKeyState' = currentTKeyState
        /\ m_firstMouse' = FALSE
        /\ m_lastX' = xpos
        /\ m_lastY' = ypos
        /\ m_camera' = processMouseMovement(m_camera, xoffset, yoffset)
        /\ UNCHANGED <<trampleMapA, trampleMapB, trampleMapSize, m_trampleMapSwap,
                       m_trampleComputePSO, uniformBuffer, lastTime, glfwTime, queue,
                       frame, dispatched, lastOutput, writer, gpuLog, grassOut, calls,
                       m_texture, m_groundTexture, bladeOut, running, vertexOut>>

\* draw() when nextDrawable() hands out a drawable: rebuild the uniforms,
\* encode the trample update and the render pass, commit without waiting.
\* With m_texture == nullptr the grass pass calls m_texture->getMetalTexture():
\* this is the outcome in which the call returns and the pass is encoded with
\* no valid grass texture.
Draw(elapsed, encoderOk) ==
    LET time == glfwTime + elapsed
        u == FrameUniforms(time, lastTime, m_showTrampleMap)
        encoded == m_trampleComputePSO /\ encoderOk
        swapAfter == NextSwap(m_trampleMapSwap, encoded)
        cb == [frame |-> frame + 1,
               compute |-> encoded,
               seq |-> IF encoded THEN dispatched + 1 ELSE 0,
               inputTexture |-> InputName(m_trampleMapSwap),
               outputTexture |-> OutputName(m_trampleMapSwap),
               trampleMap |-> GrassTrampleMap(swapAfter),
               grassTexture |-> m_texture,
               passes |-> EncodedPasses(m_groundTexture),
               warnings |-> FrameWarnings(m_groundTexture),
               fragmentUniforms |-> GrassFragmentUniforms(m_groundTexture),
               uniforms |-> u,
               stage |-> IF encoded THEN "compute" ELSE "render"]
    IN  /\ running
        /\ frame < MaxFrames
        /\ Len(queue) < MaxInFlight
        /\ glfwTime' = time
        /\ uniformBuffer' = u
        /\ lastTime' = StoredTime(lastTime, time, TRUE)
        /\ m_trampleMapSwap' = swapAfter
        /\ queue' = Append(queue, cb)
        /\ frame' = frame + 1
        /\ dispatched' = IF encoded THEN dispatched + 1 ELSE dispatched
        /\ lastOutput' = IF encoded THEN OutputName(m_trampleMapSwap) ELSE lastOutput
        /\ UNCHANGED <<trampleMapA, trampleMapB, trampleMapSize, m_trampleComputePSO,
                       writer, gpuLog, grassOut, calls, m_showTrampleMap,
                       m_prevTKeyState, m_texture, m_groundTexture, bladeOut, inputVars, running, vertexOut>>

\* draw() with m_texture == nullptr, the other outcome of the call
\* m_texture->getMetalTexture(): the process dies inside draw(), before the
\* command buffer of the frame is committed; nothing of the frame reaches the GPU.
DrawCrash ==
    /\ running
    /\ frame < MaxFrames
    /\ Len(queue) < MaxInFlight
    /\ m_texture = "null"
    /\ running' = FALSE
    /\ UNCHANGED <<trampleMapA, trampleMapB, trampleMapSize, m_trampleMapSwap,
                   m_trampleComputePSO, uniformBuffer, lastTime, glfwTime, queue,
                   frame, dispatched, lastOutput, writer, gpuLog, grassOut, calls,
                   m_showTrampleMap, m_prevTKeyState, m_texture, m_groundTexture, bladeOut, inputVars, vertexOut>>

\* draw() when nextDrawable() returns null, after `elapsed` on the clock:
\* return at once, before the uniforms are rebuilt and before anything is encoded
DrawNoDrawable(elapsed) ==
    /\ running
    /\ frame < MaxFrames
    /\ glfwTime + elapsed <= MaxTime
    /\ glfwTime' = glfwTime + elapsed
    /\ lastTime' = StoredTime(lastTime, glfwTime + elapsed, FALSE)
    /\ UNCHANGED <<trampleMapA, trampleMapB, trampleMapSize, m_trampleMapSwap,
                   m_trampleComputePSO, uniformBuffer, queue, frame, dispatched,
                   lastOutput, writer, gpuLog, grassOut, calls, m_showTrampleMap,
                   m_prevTKeyState, m_texture, m_groundTexture, bladeOut, inputVars, running, vertexOut>>

\* The GPU runs the compute pass of the oldest committed command buffer
GpuTrampleUpdate ==
    /\ running
    /\ queue # <<>>
    /\ Head(queue).stage = "compute"
    /\ LET cb == Head(queue)
           out == updateTrampleMap(Grid(cb.inputTexture), Grid(cb.outputTexture),
                                   uniformBuffer, trampleMapSize)
       IN  /\ IF cb.outputTexture = "A"
              THEN trampleMapA' = out /\ UNCHANGED trampleMapB
              ELSE trampleMapB' = out /\ UNCHANGED trampleMapA
           /\ writer' = [writer EXCEPT ![cb.outputTexture] = cb.seq]
           /\ gpuLog' = [frame |-> cb.frame, stage |-> "compute", seq |-> cb.seq,
                         uniformsRead |-> uniformBuffer, uniformsWritten |-> cb.uniforms,
                         inputWriter |-> writer[cb.inputTexture]]
           /\ queue' = <<[cb EXCEPT !.stage = "render"]>> \o Tail(queue)
    /\ UNCHANGED <<trampleMapSize, m_trampleMapSwap, m_trampleComputePSO, uniformBuffer,
                   lastTime, glfwTime, frame, dispatched, lastOutput, grassOut, calls,
                   m_showTrampleMap, m_prevTKeyState, m_texture, m_groundTexture, bladeOut, inputVars, running, vertexOut>>

\* The GPU runs the render pass (the grass pass in it) of the oldest command buffer
GpuRenderPass ==
    /\ running
    /\ queue # <<>>
    /\ Head(queue).stage = "render"
    /\ LET cb == Head(queue)
       IN  \E read \in UniformReads(cb.fragmentUniforms) :
           /\ grassOut' = IF read = "fault" THEN {}
                           ELSE GrassPass(Grid(cb.trampleMap), trampleMapSize, uniformBuffer)
           /\ vertexOut' = VertexPass
           /\ gpuLog' = [frame |-> cb.frame, stage |-> "render", seq |-> cb.seq,
                         uniformsRead |-> uniformBuffer, uniformsWritten |-> cb.uniforms,
                         inputWriter |-> writer[cb.trampleMap],
                         grassTexture |-> cb.grassTexture,
                         passes |-> IF read = "fault" THEN <<>> ELSE cb.passes]
           /\ queue' = Tail(queue)
    /\ UNCHANGED <<trampleMapA, trampleMapB, trampleMapSize, m_trampleMapSwap,
                   m_trampleComputePSO, uniformBuffer, lastTime, glfwTime, frame,
                   dispatched, lastOutput, writer, calls, m_showTrampleMap,
                   m_prevTKeyState, m_texture, m_groundTexture, bladeOut, inputVars, running>>

Next ==
    \/ \E elapsed \in Elapsed, encoderOk \in BOOLEAN : Draw(elapsed, encoderOk)
    \/ DrawCrash
    \/ DrawNoDrawable(0)
    \/ GpuTrampleUpdate
    \/ GpuRenderPass

Spec == Init /\ [][Next]_vars

----------------------------------------------------------------------------
(* The renderer with the debug key: every resource was created, the update  *)
(* is encoded in every frame, and update() reads the T key between frames.  *)

InitDebug ==
    /\ Init
    /\ m_trampleComputePSO = TRUE
    /\ m_texture = "loaded"

NextDebug ==
    \/ \E currentTKeyState \in BOOLEAN : Update(currentTKeyState, 400, 300)
    \/ \E elapsed \in Elapsed : Draw(elapsed, TRUE)
    \/ DrawNoDrawable(0)
    \/ GpuTrampleUpdate
    \/ GpuRenderPass

SpecDebug == InitDebug /\ [][NextDebug]_vars

----------------------------------------------------------------------------
(* The renderer while the layer runs out of drawables: every resource was   *)
(* created, and the clock goes on while draw() returns without a frame.     *)

InitStall ==
    /\ InitDebug
    /\ trampleMapA = trampleMapB

NextStall ==
    \/ \E elapsed \in Elapsed : Draw(elapsed, TRUE)
    \/ \E elapsed \in Elapsed : DrawNoDrawable(elapsed)
    \/ GpuTrampleUpdate
    \/ GpuRenderPass

SpecStall == InitStall /\ [][NextStall]_vars

----------------------------------------------------------------------------
(* The renderer with any outcome of loading the ground texture              *)

InitGround ==
    /\ trampleMapSize = TrampleMapSize
    /\ \E v \in Uninitialized : trampleMapA = Fill(TrampleMapSize, v)
    /\ trampleMapB = trampleMapA
    /\ m_trampleMapSwap = FALSE
    /\ m_trampleComputePSO = TRUE
    /\ uniformBuffer = MakeUniforms(0, <<0, 0>>, 0, <<0, 0>>, <<0, 0>>, 0, 0, FALSE)
    /\ lastTime = 0
    /\ glfwTime = 0
    /\ queue = <<>>
    /\ frame = 0
    /\ dispatched = 0
    /\ lastOutput = "none"
    /\ writer = [n \in {"A", "B"} |-> 0]
    /\ gpuLog = NoLog
    /\ grassOut = {}
    /\ calls = 0
    /\ m_showTrampleMap = FALSE
    /\ m_prevTKeyState = FALSE
    /\ m_texture = "loaded"
    /\ running = TRUE
    /\ vertexOut = {}
    /\ m_camera = [yaw |-> 0 - 90 * Degree, pitch |-> 0]
    /\ m_firstMouse = TRUE
    /\ m_lastX = 400
    /\ m_lastY = 300
    /\ \E pngReadable \in BOOLEAN, jpgReadable \in BOOLEAN :
          m_groundTexture = LoadGroundTexture(pngReadable, jpgReadable)
    /\ bladeOut = {}

NextGround ==
    \/ \E elapsed \in Elapsed : Draw(elapsed, TRUE)
    \/ DrawNoDrawable(0)
    \/ GpuTrampleUpdate
    \/ GpuRenderPass

SpecGround == InitGround /\ [][NextGround]_vars

----------------------------------------------------------------------------
(* The vertex stage alone: vertexMain run on the vertices of one blade      *)

\* vertexMain on every vertex of one blade instance
VertexMain(rootDist, lean, tilt, axis, build) ==
    LET u == FrameUniforms(glfwTime, lastTime, m_showTrampleMap)
    IN  /\ running
        /\ bladeOut' =
             { [tilt |-> tilt, axis |-> axis, lean |-> lean,
                local |-> <<side, t, 0>>,
                tilted |-> InitialTilt(<<side, t, 0>>, tilt, axis),
                flat |-> FlattenVertex(rootDist, side, lean, t, u, build)] :
                  side \in Sides, t \in Heights }
        /\ UNCHANGED <<trampleMapA, trampleMapB, trampleMapSize, m_trampleMapSwap,
                       m_trampleComputePSO, uniformBuffer, lastTime, glfwTime, queue,
                       frame, dispatched, lastOutput, writer, gpuLog, grassOut, calls,
                       m_showTrampleMap, m_prevTKeyState, m_texture, running,
                       vertexOut, m_groundTexture, inputVars>>

NextVertex ==
    \E rootDist \in RootDists, lean \in Leans, tilt \in Tilts, axis \in TiltAxes,
       build \in SmoothstepBuilds :
        VertexMain(rootDist, lean, tilt, axis, build)

SpecVertex == InitStall /\ [][NextVertex]_vars

----------------------------------------------------------------------------
(* Input handling alone: update() called again and again with any state of  *)
(* the T key and any cursor position.                                       *)

NextInput ==
    \E currentTKeyState \in BOOLEAN, xpos \in CursorXs, ypos \in CursorYs :
        Update(currentTKeyState, xpos, ypos)

SpecInput == InitStall /\ [][NextInput]_vars

----------------------------------------------------------------------------
(* Claims about one update (kernel-level specification)                     *)

NextGrid(name) == IF name = "A" THEN trampleMapA' ELSE trampleMapB'

\* An advance step: the update reads Grid(InputName(m_trampleMapSwap)) with the
\* uniforms uniformBuffer' and writes NextGrid(OutputName(m_trampleMapSwap)).
IsAdvanceStep == calls' = calls + 1

\* After an advance: the grid the latest update read and the grid it wrote
ReadGrid == Grid(OutputName(m_trampleMapSwap))
WrittenGrid == Grid(CurrentName(m_trampleMapSwap))

\* Planar distance of a cell's world position to the interactor, compared with
\* the radius (both sides squared and scaled by the texture width)
CellOutsideRadius(gid, u, w) ==
    DistSqw(gid, u, w) >= (u.ballRadius * w) * (u.ballRadius * w)
CellStrictlyInside(gid, u, w) ==
    DistSqw(gid, u, w) < (u.ballRadius * w) * (u.ballRadius * w)

\* C1: a cell holding a value in [0,1] that is not within the interactor radius
\* never receives a larger value from one update (dt >= 0, decay rate >= 0);
\* a value rises in an update only if that update stamps the cell.
C1_DecayMonotone ==
    [][IsAdvanceStep =>
        \A gid \in Cells(trampleMapSize) :
            LET cur == Grid(InputName(m_trampleMapSwap))[gid]
                nxt == NextGrid(OutputName(m_trampleMapSwap))[gid]
            IN  (cur >= 0 /\ cur <= Unit) =>
                  /\ CellOutsideRadius(gid, uniformBuffer', trampleMapSize) => nxt <= cur
                  /\ nxt > cur =>
                        /\ CellStrictlyInside(gid, uniformBuffer', trampleMapSize)
                        /\ nxt = Unit]_vars

\* C1 witness: an update with dt > 0 has lowered, without emptying it, a cell in
\* (0,1] that lies outside the radius.
C1_Witness ==
    /\ calls >= 1
    /\ uniformBuffer.dt > 0
    /\ \E gid \in Cells(trampleMapSize) :
          /\ CellOutsideRadius(gid, uniformBuffer, trampleMapSize)
          /\ ReadGrid[gid] > 0 /\ ReadGrid[gid] <= Unit
          /\ WrittenGrid[gid] > 0 /\ WrittenGrid[gid] < ReadGrid[gid]

\* C3: one update writes next = max(max(0, current - decayRate*dt), stamp) to
\* every cell, stamp being 1 when the distance is strictly below the radius and
\* 0 otherwise, so a cell at distance exactly the radius gets its decayed value.
C3_UpdateRule ==
    [][IsAdvanceStep =>
        \A gid \in Cells(trampleMapSize) :
            LET u == uniformBuffer'
                cur == Grid(InputName(m_trampleMapSwap))[gid]
                nxt == NextGrid(OutputName(m_trampleMapSwap))[gid]
                loss == (u.trampleDecayRate * u.dt) \div TicksPerSecond
                decayed == IF cur - loss > 0 THEN cur - loss ELSE 0
                stamp == IF CellStrictlyInside(gid, u, trampleMapSize) THEN Unit ELSE 0
            IN  nxt = IF decayed > stamp THEN decayed ELSE stamp]_vars

\* C3 witness: the example of the specification. A cell at 0.8, decay rate 1.0,
\* dt 0.5 s and the interactor far away at (5,5): the cell now holds 0.3.
C3_Witness ==
    /\ calls >= 1
    /\ uniformBuffer.dt = TicksPerSecond \div 2
    /\ uniformBuffer.trampleDecayRate = Unit
    /\ uniformBuffer.ballWorldPos = <<5 * WorldUnit, 5 * WorldUnit>>
    /\ \E gid \in Cells(trampleMapSize) :
          /\ ReadGrid[gid] = (8 * Unit) \div 10
          /\ WrittenGrid[gid] = (3 * Unit) \div 10

\* C10: with dt = 0 and a stationary interactor, every call after the first
\* leaves the current grid (the one the swap flag names) as the call before it
\* left it.
C10_Idempotent ==
    [][(/\ IsAdvanceStep
        /\ calls >= 1
        /\ uniformBuffer.dt = 0
        /\ uniformBuffer'.dt = 0
        /\ uniformBuffer'.ballWorldPos = uniformBuffer.ballWorldPos
        /\ uniformBuffer'.ballRadius = uniformBuffer.ballRadius)
       => NextGrid(CurrentName(m_trampleMapSwap')) = Grid(CurrentName(m_trampleMapSwap))]_vars

\* C10 witness: two calls in a row with dt = 0 and the interactor at the same
\* place over the field; the current grid holds stamped cells and cells that
\* kept an older value.
C10_Witness ==
    /\ calls >= 2
    /\ gpuLog.previous.dt = 0
    /\ uniformBuffer.dt = 0
    /\ gpuLog.previous.ballWorldPos = uniformBuffer.ballWorldPos
    /\ \E gid \in Cells(trampleMapSize) : WrittenGrid[gid] = Unit
    /\ \E gid \in Cells(trampleMapSize) : WrittenGrid[gid] > 0 /\ WrittenGrid[gid] < Unit
    /\ WrittenGrid = ReadGrid

----------------------------------------------------------------------------
(* Claims about the renderer                                                *)

\* A step in which the GPU runs the trample update of the oldest command buffer
IsGpuUpdateStep ==
    /\ queue # <<>>
    /\ Head(queue).stage = "compute"
    /\ queue' # <<>>
    /\ Head(queue').stage = "render"
    /\ Head(queue').frame = Head(queue).frame

\* C2: every cell whose world position is within the radius of the interactor
\* receives exactly 1 from one update, whatever its prior value.
C2_StampSaturates ==
    [][IsGpuUpdateStep =>
        \A gid \in Cells(trampleMapSize) :
            CellStrictlyInside(gid, uniformBuffer, trampleMapSize)
                => NextGrid(Head(queue).outputTexture)[gid] = Unit]_vars

\* C4: every cell of both grids holds a value in [0,1] in every reachable state.
C4_RangeInvariant ==
    \A gid \in Cells(trampleMapSize) :
        /\ trampleMapA[gid] >= 0 /\ trampleMapA[gid] <= Unit
        /\ trampleMapB[gid] >= 0 /\ trampleMapB[gid] <= Unit

\* C5: before the first frame every cell of both grids is 0.
C5_ZeroAtStartup ==
    frame = 0 =>
        \A gid \in Cells(trampleMapSize) : trampleMapA[gid] = 0 /\ trampleMapB[gid] = 0

\* C6: in every frame that dispatches the update, the grid bound to the grass
\* pass is the grid that frame's update writes, not the grid it reads.
C6_GrassReadsWritten ==
    \A i \in 1 .. Len(queue) :
        queue[i].compute => queue[i].trampleMap = queue[i].outputTexture

\* C7: input and output of an update are distinct grids; the flag flips exactly
\* once per dispatched update; each dispatched update reads the grid the
\* previous dispatched update wrote (A for the first), on the CPU by name and
\* on the GPU by content.
C7_PingPong ==
    /\ [](\A i \in 1 .. Len(queue) :
            queue[i].compute => queue[i].inputTexture # queue[i].outputTexture)
    /\ [](m_trampleMapSwap = (dispatched % 2 = 1))
    /\ [][(dispatched' = dispatched + 1) =>
            /\ m_trampleMapSwap' # m_trampleMapSwap
            /\ queue'[Len(queue')].inputTexture =
                  IF dispatched = 0 THEN "A" ELSE lastOutput]_vars
    /\ [][(dispatched' = dispatched) => (m_trampleMapSwap' = m_trampleMapSwap)]_vars
    /\ [](gpuLog.stage = "compute" => gpuLog.inputWriter = gpuLog.seq - 1)

\* C7 witness: the GPU has run the third dispatched update (A->B, B->A, A->B).
C7_Witness ==
    /\ dispatched >= 3
    /\ gpuLog.stage = "compute"
    /\ gpuLog.seq = 3
    /\ gpuLog.inputWriter = 2

\* C8: every GPU stage of frame n reads the uniforms the CPU wrote for frame n.
C8_UniformsOfOwnFrame ==
    gpuLog.stage \in {"compute", "render"} => gpuLog.uniformsRead = gpuLog.uniformsWritten

\* C9 as stated: a grass fragment is discarded when its sample exceeds 0.5 and
\* shaded whenever its sample is at or below 0.5.
C9_ClipOnly ==
    \A e \in grassOut :
        /\ e.trample4 > 4 * KillThreshold => e.out = "discarded"
        /\ e.trample4 <= 4 * KillThreshold => e.out = "shaded"

\* C9 amended: a grass fragment is discarded when its sample exceeds 0.5; one
\* at or below 0.5 (0.5 included) passes the trample clip and is shaded exactly
\* when its opacity is not below the floor of 0.1.
C9_ClipThenAlpha ==
    \A e \in grassOut :
        /\ e.trample4 > 4 * KillThreshold => e.out = "discarded"
        /\ e.trample4 <= 4 * KillThreshold =>
              (e.out = "shaded" <=> e.opacity * 10 >= OpacityUnit)

\* C9 witness: one grass pass produced a clipped fragment, a fragment sampled at
\* exactly 0.5 that is shaded, and an unclipped fragment the alpha floor discards.
C9_Witness ==
    /\ gpuLog.stage = "render"
    /\ \E e \in grassOut : e.trample4 > 4 * KillThreshold /\ e.out = "discarded"
    /\ \E e \in grassOut : e.trample4 = 4 * KillThreshold /\ e.out = "shaded"
    /\ \E e \in grassOut : e.trample4 <= 4 * KillThreshold /\ e.out = "discarded"

----------------------------------------------------------------------------
(* Claims about the index-to-world mapping                                  *)

\* The scenario of the specification: 4x4 grid over [-1,1]x[-1,1], interactor
\* at (0,0) with radius 0.6, decay rate 1.0, dt 0.1, input grid all zero.
IsCentreScenario ==
    /\ IsAdvanceStep
    /\ trampleMapSize = 4
    /\ uniformBuffer'.groundMinXZ = <<0 - WorldUnit, 0 - WorldUnit>>
    /\ uniformBuffer'.groundMaxXZ = <<WorldUnit, WorldUnit>>
    /\ uniformBuffer'.ballWorldPos = <<0, 0>>
    /\ uniformBuffer'.ballRadius = (6 * WorldUnit) \div 10
    /\ uniformBuffer'.trampleDecayRate = Unit
    /\ uniformBuffer'.dt = TicksPerSecond \div 10
    /\ Grid(InputName(m_trampleMapSwap)) = Fill(4, 0)

CentreCells == { <<1, 1>>, <<1, 2>>, <<2, 1>>, <<2, 2>> }
CornerCells == { <<0, 0>>, <<0, 3>>, <<3, 0>>, <<3, 3>> }

\* C11: in the 4x4 scenario one update sets exactly the four centre cells
\* (1,1), (1,2), (2,1), (2,2) to 1 and leaves the four corner cells at 0.
C11_FourCentreCells ==
    [][IsCentreScenario =>
        LET nxt == NextGrid(OutputName(m_trampleMapSwap))
        IN  /\ \A gid \in Cells(4) : (nxt[gid] = Unit) <=> (gid \in CentreCells)
            /\ \A gid \in CornerCells : nxt[gid] = 0]_vars

\* trampleUV = (worldXZ - groundMinXZ) / (groundMaxXZ - groundMinXZ), for a world
\* position given multiplied by the texture width; the result is the position
\* in half texels, k = trampleUV * 2 * width per axis (see FragPositions).
TrampleUV2w(worldXZw, u, w) ==
    << (2 * (worldXZw[1] - u.groundMinXZ[1] * w)) \div (u.groundMaxXZ[1] - u.groundMinXZ[1]),
       (2 * (worldXZw[2] - u.groundMinXZ[2] * w)) \div (u.groundMaxXZ[2] - u.groundMinXZ[2]) >>

\* The cells whose centre is nearest to a position given in half texels: the
\* centre of cell c lies at 2c + 1, so a position on a texel border (k even) is
\* as near to the cell on its left as to the cell on its right.
NearestCells(p, w) ==
    { LoTexel(p[1], w), HiTexel(p[1], w) } \X { LoTexel(p[2], w), HiTexel(p[2], w) }

InteriorCells(w) == (1 .. w - 2) \X (1 .. w - 2)

\* C12: for every interior cell (i,j), index -> world (the update's mapping)
\* -> UV (the fragment stage's mapping) -> nearest cell gives (i,j) and no
\* other cell.
C12_RoundTrip ==
    calls >= 1 =>
        \A gid \in InteriorCells(trampleMapSize) :
            NearestCells(TrampleUV2w(WorldXZw(gid, uniformBuffer, trampleMapSize),
                                     uniformBuffer, trampleMapSize),
                         trampleMapSize) = {gid}

----------------------------------------------------------------------------
(* Claims about an interactor outside the field                             *)

\* The interactor's XZ position lies outside the world bounds of the field
OutOfBounds(u) ==
    \/ u.ballWorldPos[1] < u.groundMinXZ[1] \/ u.ballWorldPos[1] > u.groundMaxXZ[1]
    \/ u.ballWorldPos[2] < u.groundMinXZ[2] \/ u.ballWorldPos[2] > u.groundMaxXZ[2]

\* Distance from the interactor to the rectangle of the world bounds, per axis
Excess(x, lo, hi) == IF x < lo THEN lo - x ELSE IF x > hi THEN x - hi ELSE 0

\* The interactor is at least one radius away from the rectangle of the bounds
BeyondReach(u) ==
    LET dx == Excess(u.ballWorldPos[1], u.groundMinXZ[1], u.groundMaxXZ[1])
        dz == Excess(u.ballWorldPos[2], u.groundMinXZ[2], u.groundMaxXZ[2])
    IN  dx * dx + dz * dz >= u.ballRadius * u.ballRadius

\* max(0, current - decayRate * dt), computed apart from the kernel's operators
DecayOnly(cur, u) ==
    LET loss == (u.trampleDecayRate * u.dt) \div TicksPerSecond
    IN  IF cur - loss > 0 THEN cur - loss ELSE 0

\* C14 as stated: for every interactor position outside the world bounds the
\* update stamps no cell, every cell gets max(0, current - decayRate*dt).
C14_NoStampOutOfBounds ==
    [][(IsAdvanceStep /\ OutOfBounds(uniformBuffer')) =>
        \A gid \in Cells(trampleMapSize) :
            NextGrid(OutputName(m_trampleMapSwap))[gid] =
                DecayOnly(Grid(InputName(m_trampleMapSwap))[gid], uniformBuffer')]_vars

\* C14 amended: for an interactor outside the world bounds, a cell is stamped
\* exactly when its distance to the interactor is strictly below the radius
\* (an edge cell can be); when the interactor is at least one radius away from
\* the bounds no cell is stamped and every cell gets max(0, current - decayRate*dt).
C14_NoStampBeyondReach ==
    [][(IsAdvanceStep /\ OutOfBounds(uniformBuffer')) =>
        LET u == uniformBuffer'
            cur == Grid(InputName(m_trampleMapSwap))
            nxt == NextGrid(OutputName(m_trampleMapSwap))
        IN  /\ \A gid \in Cells(trampleMapSize) :
                  nxt[gid] = IF CellStrictlyInside(gid, u, trampleMapSize)
                             THEN (IF DecayOnly(cur[gid], u) > Unit
                                   THEN DecayOnly(cur[gid], u) ELSE Unit)
                             ELSE DecayOnly(cur[gid], u)
            /\ BeyondReach(u) =>
                  \A gid \in Cells(trampleMapSize) : nxt[gid] = DecayOnly(cur[gid], u)]_vars

\* C14 witness: an update ran with the interactor outside the bounds, exactly
\* one radius away from the nearest cell; that cell and every other cell
\* decayed (dt > 0) and none was stamped.
C14_Witness ==
    /\ calls >= 1
    /\ OutOfBounds(uniformBuffer)
    /\ BeyondReach(uniformBuffer)
    /\ uniformBuffer.dt > 0
    /\ \E gid \in Cells(trampleMapSize) :
          DistSqw(gid, uniformBuffer, trampleMapSize) =
              (uniformBuffer.ballRadius * trampleMapSize) * (uniformBuffer.ballRadius * trampleMapSize)
    /\ \A gid \in Cells(trampleMapSize) :
          /\ ReadGrid[gid] > 0 /\ ReadGrid[gid] <= Unit
          /\ WrittenGrid[gid] = DecayOnly(ReadGrid[gid], uniformBuffer)
          /\ WrittenGrid[gid] < ReadGrid[gid]

----------------------------------------------------------------------------
(* Claims about who writes the grids                                        *)

\* C13: an update leaves its input grid as it was and changes only its output
\* grid; no other step (the role swap in draw, the grass pass and the rest of
\* the render pass) changes a cell of either grid.
C13_OnlyWriter ==
    [][/\ IsGpuUpdateStep =>
             NextGrid(Head(queue).inputTexture) = Grid(Head(queue).inputTexture)
       /\ ~IsGpuUpdateStep => (trampleMapA' = trampleMapA /\ trampleMapB' = trampleMapB)]_vars

\* C13 witness: the GPU has run the second update, which read B (holding a
\* stamped cell written by the first update) and wrote A; B still holds the
\* stamp and the grids differ; a grass pass has run before it.
C13_Witness ==
    /\ gpuLog.stage = "compute"
    /\ gpuLog.seq = 2
    /\ writer["B"] = 1
    /\ writer["A"] = 2
    /\ grassOut # {}
    /\ \E gid \in Cells(trampleMapSize) : trampleMapB[gid] = Unit
    /\ trampleMapA # trampleMapB

\* C15: when the compute pipeline was not created, no grass fragment of any
\* frame is discarded by the trample clip (every sample is at or below 0.5).
C15_NoClipWhenUnavailable ==
    ~m_trampleComputePSO => \A e \in grassOut : e.trample4 <= 4 * KillThreshold

\* C16: when loading the grass texture failed the program is not running (it
\* stopped during construction), and no grass pass runs without grass texture.
C16_FatalAtStartup ==
    /\ m_texture = "null" => (~running /\ frame = 0)
    /\ gpuLog.stage = "render" => gpuLog.grassTexture = "loaded"

\* The uniforms with the debug toggle in its other position
OtherToggle(u) == [u EXCEPT !.showTrampleMap = ~u.showTrampleMap]

\* The fragments of a grass pass without their colour
Outcomes(fragments) ==
    { [trample4 |-> e.trample4, opacity |-> e.opacity, out |-> e.out] : e \in fragments }

\* A step in which the GPU runs the render pass of the oldest command buffer
IsGpuRenderStep ==
    /\ queue # <<>>
    /\ Head(queue).stage = "render"
    /\ queue' = Tail(queue)

\* C17: the debug toggle changes the colour of output fragments only. Pressing
\* the key changes neither grid; an update run with the toggle in its other
\* position writes the same grid; a grass pass run with the toggle in its other
\* position discards and outputs exactly the same fragments.
C17_ToggleOnlyTints ==
    [][/\ (m_showTrampleMap' # m_showTrampleMap) =>
              UNCHANGED <<trampleMapA, trampleMapB, m_trampleMapSwap, queue, grassOut>>
       /\ IsGpuUpdateStep =>
              NextGrid(Head(queue).outputTexture) =
                  updateTrampleMap(Grid(Head(queue).inputTexture),
                                   Grid(Head(queue).outputTexture),
                                   OtherToggle(uniformBuffer), trampleMapSize)
       /\ IsGpuRenderStep =>
              Outcomes(grassOut') =
                  Outcomes(GrassPass(Grid(Head(queue).trampleMap), trampleMapSize,
                                     OtherToggle(uniformBuffer)))]_vars

\* C17 witness: a grass pass ran with the toggle on after an update ran with
\* the toggle on; the pass clipped fragments over the footprint and output
\* others, some of them tinted.
C17_Witness ==
    /\ gpuLog.stage = "render"
    /\ gpuLog.uniformsRead.showTrampleMap
    /\ gpuLog.seq >= 2
    /\ \E e \in grassOut : e.out = "discarded" /\ e.trample4 > 4 * KillThreshold
    /\ \E e \in grassOut : e.out = "shaded" /\ e.tint > 0
    /\ \E e \in grassOut : e.out = "shaded" /\ e.tint = 0

----------------------------------------------------------------------------
(* Claims about the wind bend                                               *)

\* C18: the wind bend angle of a vertex is 0 at the root (t = 0), the combined
\* wind strength times 1.2 at the tip (t = 1), and proportional to t between.
C18_BendAngle ==
    \A v \in vertexOut :
        /\ v.t = 0 => v.bendAngle = 0
        /\ v.t = HeightUnit => v.bendAngle * 10 = v.totalWindStrength * BendSensitivity
        /\ \A tip \in vertexOut :
              (/\ tip.t = HeightUnit
               /\ tip.sine = v.sine /\ tip.rawSine = v.rawSine /\ tip.noise = v.noise)
                  => v.bendAngle * HeightUnit = tip.bendAngle * v.t

\* C18 witness: a grass pass posed blades with positive and with negative
\* combined wind, each with a root, a middle and a tip vertex.
C18_Witness ==
    /\ \E v \in vertexOut : v.t = 0 /\ v.totalWindStrength > 0
    /\ \E v \in vertexOut : v.t = HeightUnit /\ v.bendAngle > 0
    /\ \E v \in vertexOut : v.t = HeightUnit /\ v.bendAngle < 0
    /\ \E v \in vertexOut : v.t > 0 /\ v.t < HeightUnit /\ v.bendAngle # 0

----------------------------------------------------------------------------
(* Claims about the dispatch                                                *)

\* C19: the threads of a dispatch cover the grid, the threads outside the grid
\* write nothing, and each dispatched update writes every cell of its output
\* grid (one thread per cell).
C19_DispatchCoversGrid ==
    /\ [](/\ Cells(trampleMapSize) \subseteq Threads(trampleMapSize)
          /\ WritingThreads(trampleMapSize) = Cells(trampleMapSize))
    /\ [][IsGpuUpdateStep =>
            /\ DOMAIN NextGrid(Head(queue).outputTexture) = Cells(trampleMapSize)
            /\ \A gid \in Cells(trampleMapSize) :
                  NextGrid(Head(queue).outputTexture)[gid] =
                      NewTrample(Grid(Head(queue).inputTexture)[gid], gid,
                                 uniformBuffer, trampleMapSize)]_vars

\* C19 witness: the GPU has run an update whose dispatch launched more threads
\* than the grid has cells, and every cell of the output differs from what the
\* grid held when it was created.
C19_Witness ==
    /\ gpuLog.stage = "compute"
    /\ gpuLog.seq = 1
    /\ Cardinality(Threads(trampleMapSize)) > Cardinality(Cells(trampleMapSize))
    /\ \E v \in Uninitialized : v # 0 /\ trampleMapA = Fill(trampleMapSize, v)
    /\ \A gid \in Cells(trampleMapSize) : trampleMapB[gid] # trampleMapA[gid]

\* Orders in which the threads of a dispatch can run
RowMajor(w) == [i \in 1 .. w * w |-> <<(i - 1) % w, (i - 1) \div w>>]
ColumnMajor(w) == [i \in 1 .. w * w |-> <<(i - 1) \div w, (i - 1) % w>>]
Backwards(order) == [i \in 1 .. Len(order) |-> order[Len(order) + 1 - i]]
Orders(w) == { RowMajor(w), Backwards(ColumnMajor(w)) }

\* C20: the grid an update produces is the same for every order in which its
\* threads run, and each output cell is computed from the same cell of the
\* input grid and the uniforms alone.
C20_OrderIndependent ==
    [][IsAdvanceStep =>
        LET inName == InputName(m_trampleMapSwap)
            outName == OutputName(m_trampleMapSwap)
            textures == [A |-> trampleMapA, B |-> trampleMapB]
        IN  /\ \A order \in Orders(trampleMapSize) :
                  RunThreads(order, textures, inName, outName, uniformBuffer',
                             trampleMapSize) = [A |-> trampleMapA', B |-> trampleMapB']
            /\ \A gid \in Cells(trampleMapSize) :
                  NextGrid(outName)[gid] =
                      NewTrample(Grid(inName)[gid], gid, uniformBuffer', trampleMapSize)]_vars

\* C20 witness: the latest update read a grid whose cells differ from one
\* another and from their mirror image, and wrote stamped and decayed cells.
C20_Witness ==
    /\ calls >= 2
    /\ \E gid \in Cells(trampleMapSize) : ReadGrid[gid] # ReadGrid[<<gid[2], gid[1]>>]
    /\ \E gid \in Cells(trampleMapSize) : WrittenGrid[gid] = Unit
    /\ \E gid \in Cells(trampleMapSize) : WrittenGrid[gid] > 0 /\ WrittenGrid[gid] < Unit

----------------------------------------------------------------------------
(* Claims about the frame clock and the frames without a drawable           *)

\* A step of draw() that rebuilds the uniforms
IsDrawStep == frame' = frame + 1

\* A step of draw() that found no drawable while the clock went on
IsNoDrawableStep == frame' = frame /\ glfwTime' # glfwTime

\* C26: in every frame that rebuilds the uniforms, dt is strictly positive: it
\* is the current time minus the stored previous time (0 before the first
\* frame) when that difference is positive and 1/60 s otherwise; afterwards the
\* stored previous time is the current time.
C26_DtPositive ==
    [][ /\ (frame = 0 => lastTime = 0)
        /\ IsDrawStep =>
              LET diff == uniformBuffer'.time - lastTime
              IN  /\ uniformBuffer'.time = glfwTime'
                  /\ uniformBuffer'.dt > 0
                  /\ (diff > 0 => uniformBuffer'.dt = diff)
                  /\ (diff <= 0 => uniformBuffer'.dt = DefaultDt)
                  /\ lastTime' = uniformBuffer'.time ]_vars

\* A later frame drawn at the very time of the frame before it: dt is 1/60 s
C26_Witness ==
    /\ frame >= 2
    /\ lastTime > 0
    /\ uniformBuffer.time = lastTime
    /\ uniformBuffer.dt = DefaultDt

\* C27: when no drawable is available, draw() returns without changing the
\* uniforms, the stored previous-frame time, the role flag or either grid, and
\* nothing is encoded or committed.
C27_NoDrawableNoChange ==
    [][ IsNoDrawableStep =>
          UNCHANGED <<uniformBuffer, lastTime, m_trampleMapSwap, trampleMapA,
                      trampleMapB, queue, dispatched, lastOutput>> ]_vars

\* A frame was drawn after a second without a drawable, with work still in
\* flight: its dt spans the whole gap
C27_Witness ==
    /\ frame >= 2
    /\ queue # <<>>
    /\ uniformBuffer.dt = 2 * TicksPerSecond

----------------------------------------------------------------------------
(* Claims about input handling                                              *)

\* C28: the debug flag toggles on key edges only: an update() flips the flag
\* exactly when the T key was released at the previous update() (or never read
\* yet) and is pressed now; it keeps the flag while the key stays pressed or
\* stays released, and when the key is let go.
C28_ToggleOnEdge ==
    [][ /\ (m_showTrampleMap' # m_showTrampleMap)
              <=> (~m_prevTKeyState /\ m_prevTKeyState')
        /\ (m_prevTKeyState' = m_prevTKeyState
              => m_showTrampleMap' = m_showTrampleMap) ]_vars

\* The key went down twice and is still held: the view is off again
C28_Witness ==
    /\ ~m_firstMouse
    /\ m_prevTKeyState
    /\ ~m_showTrampleMap

\* C29: after any sequence of processMouseMovement calls the pitch is within
\* [-89, 89] degrees, while the yaw is the plain sum of the scaled horizontal
\* offsets, never clamped.
C29_PitchClamped ==
    [][ /\ m_camera.pitch \in (0 - PitchLimit)..PitchLimit
        /\ m_camera'.pitch \in (0 - PitchLimit)..PitchLimit
        /\ m_camera'.yaw = m_camera.yaw
              + MouseSensitivity(m_lastX' - (IF m_firstMouse THEN m_lastX' ELSE m_lastX))
      ]_vars

\* The pitch was stopped at 89 degrees while the yaw is more than half a turn
\* away from 0
C29_Witness ==
    /\ m_camera.pitch = PitchLimit
    /\ m_camera.yaw < 0 - 180 * Degree

----------------------------------------------------------------------------
(* Claims about the ground texture                                          *)

\* C30: ground texture loading tries the PNG first and the JPG only when the
\* PNG fails; when both fail the ground texture is null, and in every frame
\* the ground pass is skipped with a warning while the trample update is
\* encoded and the grass pass and the ball pass are encoded and run on the GPU.
C30_GroundFallback ==
    [][ /\ Head(m_groundTexture.attempts) = "png"
        /\ (Len(m_groundTexture.attempts) = 2 <=> m_groundTexture.texture # "png")
        /\ (IsDrawStep /\ m_groundTexture.texture = "null" =>
              LET cb == queue'[Len(queue')]
              IN  /\ cb.compute
                  /\ cb.passes = <<"grass", "ball">>
                  /\ cb.warnings # <<>>)
        /\ (IsGpuRenderStep /\ m_groundTexture.texture = "null" =>
              gpuLog'.passes = <<"grass", "ball">>) ]_vars

----------------------------------------------------------------------------
(* Claims about the vertex stage                                            *)

\* The ring mask values the interactor distance of a blade's root can give
RootRing(rootDist) ==
    LET u == FrameUniforms(glfwTime, lastTime, m_showTrampleMap)
    IN  { smoothstep(u.ballRadius + FlattenBandWidth(u.ballRadius), u.ballRadius,
                     rootDist, build) : build \in SmoothstepBuilds }

\* C22: the flatten-ring mask of a grass vertex is computed from the planar
\* distance between its blade's root and the interactor centre, so all the
\* vertices of one blade get the same ring mask value whatever their own
\* displaced positions are.
C22_RingFromRoot ==
    \A v \in bladeOut :
        /\ v.flat.ring \in RootRing(v.flat.rootDist)
        /\ \A w \in bladeOut : w.flat.ring = v.flat.ring

\* C23: a vertex is moved toward its root only when its planar distance d
\* satisfies radius < d < radius + flattenBandWidth, the root vertex (t = 0)
\* is never moved, and the compression factor never exceeds flattenStrength.
C23_FlattenOnlyInBand ==
    \A v \in bladeOut :
        LET u == FrameUniforms(glfwTime, lastTime, m_showTrampleMap)
        IN  /\ (v.flat.after # v.flat.before =>
                   /\ u.ballRadius < v.flat.d
                   /\ v.flat.d < u.ballRadius + FlattenBandWidth(u.ballRadius))
            /\ (v.flat.t = 0 => v.flat.after = v.flat.before)
            /\ v.flat.flatten <= FlattenStrength

\* Squared length of a vector
LengthSq(p) == p[1] * p[1] + p[2] * p[2] + p[3] * p[3]

\* The rotation by the tilt angle about the given axis, from the coordinates
\* before the tilt, in units of 1 / TiltUnit^2
Rotation(position, tilt, axis) ==
    LET c == tilt[1]
        s == tilt[2]
        x == position[1]
        y == position[2]
        z == position[3]
    IN  IF axis = "X"
        THEN <<x * TiltUnit * TiltUnit, (y * c - z * s) * TiltUnit,
               (y * s + z * c) * TiltUnit>>
        ELSE <<(x * c - y * s) * TiltUnit, (x * s + y * c) * TiltUnit,
               z * TiltUnit * TiltUnit>>

\* C24: the initial tilt of a blade vertex is a rotation by the tilt angle
\* about a horizontal axis, both results computed from the coordinates before
\* the tilt, so the vertex's distance from the blade origin is preserved.
C24_TiltIsRotation ==
    \A v \in bladeOut :
        /\ v.tilted = Rotation(v.local, v.tilt, v.axis)
        /\ LengthSq(v.tilted)
             = LengthSq(v.local) * TiltUnit * TiltUnit * TiltUnit * TiltUnit

----------------------------------------------------------------------------
(* Claims about the decay of a stamped cell over several frames             *)

\* The fragment position at the centre of a cell
CellCentre(gid) == <<2 * gid[1] + 1, 2 * gid[2] + 1>>

\* A cell holds a stamp or what is left of one
HoldsStamp(value) == value >= 0 /\ value <= Unit

\* C25: a cell stamped in frame k and outside the radius in frames k+1..k+m
\* holds after frame k+m the value max(0, 1 - decayRate*(dt_{k+1}+...+dt_{k+m})),
\* and grass on it is clipped exactly while that accumulated decay is below
\* 0.5.  Frame by frame: the update of a frame takes decayRate times that
\* frame's dt off every cell that frame's interactor does not reach, stopping
\* at 0, and sets the cells it reaches to 1; the grass pass of the frame clips
\* the grass at the centre of a cell exactly when the value the cell holds
\* after that frame's update is above 0.5.
C25_AccumulatedDecay ==
    [][ /\ IsGpuUpdateStep =>
              LET cb == Head(queue)
              IN  \A gid \in Cells(trampleMapSize) :
                      HoldsStamp(Grid(cb.inputTexture)[gid]) =>
                          NextGrid(cb.outputTexture)[gid] =
                              IF InsideBall(gid, cb.uniforms, trampleMapSize)
                              THEN Unit
                              ELSE DecayedTrample(Grid(cb.inputTexture)[gid], cb.uniforms)
        /\ (IsGpuRenderStep /\ Head(queue).compute) =>
              LET cb == Head(queue)
              IN  \A gid \in Cells(trampleMapSize) :
                      HoldsStamp(Grid(cb.outputTexture)[gid]) =>
                          (TrampleClip(Sample4(Grid(cb.trampleMap), CellCentre(gid),
                                               trampleMapSize))
                             <=> Grid(cb.outputTexture)[gid] > KillThreshold) ]_vars

----------------------------------------------------------------------------
(* Claims about a run that goes on for ever                                 *)

\* The interactor of the latest frame does not reach the cell
OutOfReach(gid) == ~InsideBall(gid, uniformBuffer, trampleMapSize)

\* The value of a cell in the grid the latest frame wrote
CurrentValue(gid) == Grid(CurrentName(m_trampleMapSwap))[gid]

====
